---------------------------- MODULE Spec2Model ----------------------------
(***************************************************************************)
(* A model of the CoNLL-U reader/writer of universal-pos-deps/conllu/      *)
(* parser.py: the value parsers, the line and comment parsers, the block   *)
(* splitter, the sentence assembler, the serializer, the schema detector   *)
(* and the dependency index.                                               *)
(*                                                                         *)
(* A Python str is a sequence of one-character strings.  A Python value is *)
(* a record tagged by its type in the field "kind", its payload in "val".  *)
(* An exception leaving a function is the value Raise(<exception class>).  *)
(***************************************************************************)
EXTENDS Integers, Sequences, FiniteSets, TLC

VARIABLES
    pc,       \* position of the caller: which call comes next
    op,       \* the function under call
    arg,      \* its argument
    ret,      \* what the first call returned (or raised)
    out,      \* what the second call made on ret returned (or raised)
    back,     \* what parsing the serialized text again returned (or raised)
    stream,   \* contents of the input file, a sequence of characters
    pos,      \* read cursor of the input file, 0..Len(stream)
    pos0,     \* the cursor when the caller was handed the file
    buf,      \* parse_sentences: the list of lines buffered so far
    yielded   \* parse_sentences: the blocks yielded so far, in order

vars == <<pc, op, arg, ret, out, back, stream, pos, pos0, buf, yielded>>

-----------------------------------------------------------------------------
(* Python values *)

PyNone == [kind |-> "None"]
PyInt(n) == [kind |-> "int", val |-> n]
PyStr(s) == [kind |-> "str", val |-> s]
PyTuple(items) == [kind |-> "tuple", val |-> items]
PyList(items) == [kind |-> "list", val |-> items]
PyDict(pairs) == [kind |-> "dict", val |-> pairs]
Raise(e) == [kind |-> "raise", val |-> e]

IsRaise(v) == v.kind = "raise"
IsNone(v) == v.kind = "None"

-----------------------------------------------------------------------------
(* Characters and Python's str methods *)

Digits == {"0", "1", "2", "3", "4", "5", "6", "7", "8", "9"}
NonZeroDigits == Digits \ {"0"}
LowerLetters == <<"a", "b", "c", "d", "e", "f", "g", "h", "i", "j", "k", "l", "m",
                  "n", "o", "p", "q", "r", "s", "t", "u", "v", "w", "x", "y", "z">>
UpperLetters == <<"A", "B", "C", "D", "E", "F", "G", "H", "I", "J", "K", "L", "M",
                  "N", "O", "P", "Q", "R", "S", "T", "U", "V", "W", "X", "Y", "Z">>
Letters == {LowerLetters[i] : i \in 1..26} \cup {UpperLetters[i] : i \in 1..26}
Whitespace == {" ", "\t", "\n", "\r", "\f"}

DigitVal(c) ==
    CASE c = "0" -> 0 [] c = "1" -> 1 [] c = "2" -> 2 [] c = "3" -> 3 [] c = "4" -> 4
      [] c = "5" -> 5 [] c = "6" -> 6 [] c = "7" -> 7 [] c = "8" -> 8 [] c = "9" -> 9

DigitChar(d) ==
    CASE d = 0 -> "0" [] d = 1 -> "1" [] d = 2 -> "2" [] d = 3 -> "3" [] d = 4 -> "4"
      [] d = 5 -> "5" [] d = 6 -> "6" [] d = 7 -> "7" [] d = 8 -> "8" [] d = 9 -> "9"

\* int(s) for a string of decimal digits
RECURSIVE NatOfDigits(_)
NatOfDigits(s) ==
    IF Len(s) = 0 THEN 0
    ELSE NatOfDigits(SubSeq(s, 1, Len(s) - 1)) * 10 + DigitVal(s[Len(s)])

\* int(s) for an optionally signed string of decimal digits
IntOf(s) ==
    IF Len(s) > 0 /\ s[1] = "-" THEN 0 - NatOfDigits(Tail(s)) ELSE NatOfDigits(s)

\* "{}".format(n) for a natural number
RECURSIVE NatToStr(_)
NatToStr(n) ==
    IF n < 10 THEN <<DigitChar(n)>>
    ELSE NatToStr(n \div 10) \o <<DigitChar(n % 10)>>

\* "{}".format(n) for an int
IntToStr(n) == IF n < 0 THEN <<"-">> \o NatToStr(0 - n) ELSE NatToStr(n)

\* s.lower(), one character
LowerChar(c) ==
    IF \E i \in 1..26 : UpperLetters[i] = c
    THEN LowerLetters[CHOOSE i \in 1..26 : UpperLetters[i] = c]
    ELSE c

Lower(s) == [i \in 1..Len(s) |-> LowerChar(s[i])]

Contains(s, c) == \E i \in 1..Len(s) : s[i] = c

FirstIndex(s, c) == CHOOSE i \in 1..Len(s) : s[i] = c /\ \A j \in 1..(i - 1) : s[j] # c

\* s.split(sep) for a one-character separator
RECURSIVE Split(_, _)
Split(s, sep) ==
    IF Contains(s, sep)
    THEN LET i == FirstIndex(s, sep)
         IN <<SubSeq(s, 1, i - 1)>> \o Split(SubSeq(s, i + 1, Len(s)), sep)
    ELSE <<s>>

\* s.split(sep, 1)
Split1(s, sep) ==
    IF Contains(s, sep)
    THEN LET i == FirstIndex(s, sep)
         IN <<SubSeq(s, 1, i - 1), SubSeq(s, i + 1, Len(s))>>
    ELSE <<s>>

\* sep.join(parts)
RECURSIVE Join(_, _)
Join(parts, sep) ==
    IF Len(parts) = 0 THEN <<>>
    ELSE IF Len(parts) = 1 THEN parts[1]
    ELSE parts[1] \o sep \o Join(Tail(parts), sep)

\* s.rstrip()
RECURSIVE RStrip(_)
RStrip(s) ==
    IF Len(s) > 0 /\ s[Len(s)] \in Whitespace THEN RStrip(SubSeq(s, 1, Len(s) - 1)) ELSE s

\* s.lstrip()
RECURSIVE LStrip(_)
LStrip(s) == IF Len(s) > 0 /\ s[1] \in Whitespace THEN LStrip(Tail(s)) ELSE s

\* s.strip()
Strip(s) == LStrip(RStrip(s))

\* s.startswith(c) for a one-character prefix
StartsWith(s, c) == Len(s) > 0 /\ s[1] = c

-----------------------------------------------------------------------------
(* Value parsers *)

\* parse_nullable_value: empty or "_" is None, anything else is returned unchanged
parse_nullable_value(value) ==
    IF Len(value) = 0 \/ value = <<"_">> THEN PyNone ELSE PyStr(value)

\* fullmatch(INTEGER, s), INTEGER = 0|(\-?[1-9][0-9]*)
MatchPositive(s) ==
    /\ Len(s) >= 1
    /\ s[1] \in NonZeroDigits
    /\ \A i \in 2..Len(s) : s[i] \in Digits

MatchInteger(s) ==
    \/ s = <<"0">>
    \/ MatchPositive(s)
    \/ Len(s) >= 1 /\ s[1] = "-" /\ MatchPositive(Tail(s))

parse_int_value(value) ==
    IF value = <<"_">> THEN PyNone
    ELSE IF MatchInteger(value) THEN PyInt(IntOf(value))
    ELSE Raise("ParseException")

\* fullmatch(ID_SINGLE, s), ID_SINGLE = [1-9][0-9]*
MatchIdSingle(s) == MatchPositive(s)

\* fullmatch(ID_RANGE, s), ID_RANGE = [1-9][0-9]*\-[1-9][0-9]*
MatchIdRange(s) ==
    \E i \in 1..Len(s) :
        /\ s[i] = "-"
        /\ MatchPositive(SubSeq(s, 1, i - 1))
        /\ MatchPositive(SubSeq(s, i + 1, Len(s)))

\* fullmatch(ID_DOT_ID, s), ID_DOT_ID = [0-9][0-9]*\.[1-9][0-9]*
MatchIdDotId(s) ==
    \E i \in 1..Len(s) :
        /\ s[i] = "."
        /\ i >= 2
        /\ \A j \in 1..(i - 1) : s[j] \in Digits
        /\ MatchPositive(SubSeq(s, i + 1, Len(s)))

\* the range branch of parse_id_value without its order check
RangeBranchUnchecked(value) ==
    LET parts == Split(value, "-")
        from_ == NatOfDigits(parts[1])
        to == NatOfDigits(parts[2])
    IN PyTuple(<<PyInt(from_), PyStr(<<"-">>), PyInt(to)>>)

\* the range branch of parse_id_value: returns only if to > from_, else falls
\* out of the if/elif chain to the final raise
RangeBranch(value) ==
    LET parts == Split(value, "-")
        from_ == NatOfDigits(parts[1])
        to == NatOfDigits(parts[2])
    IN IF to > from_
       THEN PyTuple(<<PyInt(from_), PyStr(<<"-">>), PyInt(to)>>)
       ELSE Raise("ParseException")

parse_id_value(value) ==
    IF Len(value) = 0 \/ value = <<"_">> THEN PyNone
    ELSE IF MatchIdSingle(value) THEN PyInt(NatOfDigits(value))
    ELSE IF MatchIdRange(value) THEN RangeBranch(value)
    ELSE IF MatchIdDotId(value)
         THEN PyTuple(<<PyInt(NatOfDigits(Split(value, ".")[1])),
                        PyStr(<<".">>),
                        PyInt(NatOfDigits(Split(value, ".")[2]))>>)
    ELSE Raise("ParseException")

\* fullmatch(ANY_ID, s)
MatchAnyId(s) == MatchIdSingle(s) \/ MatchIdRange(s) \/ MatchIdDotId(s)

\* [a-zA-Z][a-zA-Z0-9_-]*
MatchLabel(s) ==
    /\ Len(s) >= 1
    /\ s[1] \in Letters
    /\ \A i \in 2..Len(s) : s[i] \in Letters \cup Digits \cup {"_", "-"}

\* fullmatch(DEPS_RE, s), DEPS_RE = (ANY_ID):label(\:label)?
MatchDeps(s) ==
    /\ Contains(s, ":")
    /\ LET i == FirstIndex(s, ":")
           rel == Split(SubSeq(s, i + 1, Len(s)), ":")
       IN /\ MatchAnyId(SubSeq(s, 1, i - 1))
          /\ Len(rel) \in {1, 2}
          /\ \A k \in 1..Len(rel) : MatchLabel(rel[k])

\* fullmatch(MULTI_DEPS_PATTERN, s), MULTI_DEPS_PATTERN = DEPS_RE(\|DEPS_RE)*
MatchMultiDeps(s) ==
    LET parts == Split(s, "|") IN \A k \in 1..Len(parts) : MatchDeps(parts[k])

\* the pair (relation, id), unless parsing the id raised
PairOrRaise(relation, id) == IF IsRaise(id) THEN id ELSE PyTuple(<<PyStr(relation), id>>)

\* one pair of parse_paired_list_value:
\* (part.split(":", 1)[1], parse_id_value(part.split(":")[0]))
DepsPair(part) == PairOrRaise(Split1(part, ":")[2], parse_id_value(Split(part, ":")[1]))

\* the list of the pairs, unless building one of them raised
ListOrRaise(pairs) ==
    IF \E k \in 1..Len(pairs) : IsRaise(pairs[k]) THEN Raise("ParseException")
    ELSE PyList(pairs)

parse_paired_list_value(value) ==
    IF MatchMultiDeps(value)
    THEN ListOrRaise([k \in 1..Len(Split(value, "|")) |-> DepsPair(Split(value, "|")[k])])
    ELSE parse_nullable_value(value)

\* d[key] = value on an OrderedDict held as a sequence of <<key, value>>
DictSet(d, key, value) ==
    IF \E i \in 1..Len(d) : d[i][1] = key
    THEN [i \in 1..Len(d) |-> IF d[i][1] = key THEN <<key, value>> ELSE d[i]]
    ELSE Append(d, <<key, value>>)

\* OrderedDict(pairs)
RECURSIVE DictFromPairs(_)
DictFromPairs(pairs) ==
    IF Len(pairs) = 0 THEN <<>>
    ELSE LET last == pairs[Len(pairs)]
         IN DictSet(DictFromPairs(SubSeq(pairs, 1, Len(pairs) - 1)), last[1], last[2])

\* the value of one part of parse_dict_value: part.split("=")[1] if "=" in part else ""
DictPartValue(part) ==
    IF Contains(part, "=") THEN parse_nullable_value(Split(part, "=")[2]) ELSE PyStr(<<>>)

parse_dict_value(value) ==
    IF IsNone(parse_nullable_value(value)) THEN PyNone
    ELSE LET parts == Split(value, "|")
             kept == SelectSeq(parts, LAMBDA p : ~IsNone(parse_nullable_value(Split(p, "=")[1])))
         IN PyDict(DictFromPairs([k \in 1..Len(kept) |->
                                    <<Split(kept[k], "=")[1], DictPartValue(kept[k])>>]))

-----------------------------------------------------------------------------
(* Serializer *)

\* text(key): str(key)
TextOf(v) ==
    CASE v.kind = "str" -> v.val
      [] v.kind = "int" -> IntToStr(v.val)
      [] v.kind = "None" -> <<"N", "o", "n", "e">>

\* one "key=value" item of a serialized OrderedDict
DictItemText(pair) ==
    pair[1] \o <<"=">> \o (IF IsNone(pair[2]) THEN <<"_">> ELSE pair[2].val)

\* the test serialize_field makes before rendering a list: only field[0] is looked at
ListHeadCheck(items) ==
    IF Len(items) = 0 THEN Raise("IndexError")
    ELSE IF Len(items[1].val) # 2 THEN Raise("ParseException")
    ELSE PyNone

RECURSIVE serialize_field(_)
serialize_field(field) ==
    CASE field.kind = "None" -> PyStr(<<"_">>)
      [] field.kind = "dict" ->
            PyStr(Join([k \in 1..Len(field.val) |-> DictItemText(field.val[k])], <<"|">>))
      [] field.kind = "tuple" ->
            LET parts == [k \in 1..Len(field.val) |-> serialize_field(field.val[k])]
            IN IF \E k \in 1..Len(parts) : IsRaise(parts[k])
               THEN parts[CHOOSE k \in 1..Len(parts) :
                            IsRaise(parts[k]) /\ \A j \in 1..(k - 1) : ~IsRaise(parts[j])]
               ELSE PyStr(Join([k \in 1..Len(parts) |-> parts[k].val], <<>>))
      [] field.kind = "list" ->
            IF IsRaise(ListHeadCheck(field.val)) THEN ListHeadCheck(field.val)
            ELSE IF \E k \in 1..Len(field.val) : Len(field.val[k].val) # 2
                 THEN Raise("ValueError")
            ELSE LET parts == [k \in 1..Len(field.val) |->
                                 serialize_field(field.val[k].val[2])]
                 IN IF \E k \in 1..Len(parts) : IsRaise(parts[k])
                    THEN parts[CHOOSE k \in 1..Len(parts) :
                                 IsRaise(parts[k]) /\ \A j \in 1..(k - 1) : ~IsRaise(parts[j])]
                    ELSE PyStr(Join([k \in 1..Len(parts) |->
                                       parts[k].val \o <<":">> \o TextOf(field.val[k].val[1])],
                                    <<"|">>))
      [] field.kind = "int" -> PyStr(IntToStr(field.val))
      [] field.kind = "str" -> PyStr(field.val)

-----------------------------------------------------------------------------
(* Field names and the default tables *)

F_id == <<"i", "d">>
F_form == <<"f", "o", "r", "m">>
F_lemma == <<"l", "e", "m", "m", "a">>
F_upostag == <<"u", "p", "o", "s", "t", "a", "g">>
F_xpostag == <<"x", "p", "o", "s", "t", "a", "g">>
F_feats == <<"f", "e", "a", "t", "s">>
F_head == <<"h", "e", "a", "d">>
F_deprel == <<"d", "e", "p", "r", "e", "l">>
F_deps == <<"d", "e", "p", "s">>
F_misc == <<"m", "i", "s", "c">>

DEFAULT_FIELDS ==
    <<F_id, F_form, F_lemma, F_upostag, F_xpostag, F_feats, F_head, F_deprel, F_deps, F_misc>>

\* field name -> the value parser its lambda applies to line[i]
DEFAULT_FIELD_PARSERS ==
    (F_id :> "parse_id_value") @@ (F_xpostag :> "parse_nullable_value")
    @@ (F_feats :> "parse_dict_value") @@ (F_head :> "parse_int_value")
    @@ (F_deps :> "parse_paired_list_value") @@ (F_misc :> "parse_dict_value")

K_newpar == <<"n", "e", "w", "p", "a", "r">>
K_newdoc == <<"n", "e", "w", "d", "o", "c">>
K_fallback == <<"_", "_", "f", "a", "l", "l", "b", "a", "c", "k", "_", "_">>
K_global_columns == <<"g", "l", "o", "b", "a", "l", ".", "c", "o", "l", "u", "m", "n", "s">>

\* key -> handler; the default handlers return the pair (key, value)
DEFAULT_METADATA_PARSERS == (K_newpar :> "identity") @@ (K_newdoc :> "identity")

\* field_parsers[field](line, i)
ApplyFieldParser(parser, value) ==
    CASE parser = "parse_id_value" -> parse_id_value(value)
      [] parser = "parse_nullable_value" -> parse_nullable_value(value)
      [] parser = "parse_dict_value" -> parse_dict_value(value)
      [] parser = "parse_int_value" -> parse_int_value(value)
      [] parser = "parse_paired_list_value" -> parse_paired_list_value(value)

\* metadata_parsers[key](key, value): what a handler the caller registered returns
ApplyHandler(handler, key, value) ==
    CASE handler = "identity" -> PyTuple(<<PyStr(key), value>>)
      [] handler = "none" -> PyNone
      [] handler = "empty_list" -> PyList(<<>>)
      [] handler = "one_in_list" -> PyList(<<PyTuple(<<PyStr(key), value>>)>>)
      [] handler = "two_in_list" ->
            PyList(<<PyTuple(<<PyStr(key), value>>), PyTuple(<<PyStr(<<"k">>), PyStr(<<"v">>)>>)>>)

\* bool(v)
Truthy(v) ==
    CASE v.kind = "None" -> FALSE
      [] v.kind \in {"str", "tuple", "list", "dict"} -> Len(v.val) > 0
      [] v.kind = "int" -> v.val # 0

-----------------------------------------------------------------------------
(* Comment / metadata parser *)

\* parse_pair_value without the two strip() calls
PairValueUntrimmed(value) ==
    LET key_maybe_value == Split1(value, "=")
    IN <<key_maybe_value[1],
         IF Len(key_maybe_value) = 1 THEN PyNone ELSE PyStr(key_maybe_value[2])>>

\* parse_pair_value: <<key, value>>, split on the first "=", both trimmed
parse_pair_value(value) ==
    LET key_maybe_value == Split1(value, "=")
    IN <<Strip(key_maybe_value[1]),
         IF Len(key_maybe_value) = 1 THEN PyNone ELSE PyStr(Strip(key_maybe_value[2]))>>

\* the metadata parsers in force: the defaults updated with the caller's
MergedMetadataParsers(metadata_parsers) == metadata_parsers @@ DEFAULT_METADATA_PARSERS

\* custom_result of parse_comment_line
CustomResult(key, value, parsers) ==
    IF key \in DOMAIN parsers THEN ApplyHandler(parsers[key], key, value)
    ELSE IF K_fallback \in DOMAIN parsers THEN ApplyHandler(parsers[K_fallback], key, value)
    ELSE PyNone

\* what parse_comment_line returns for a key, a value and the handler's result
\* (lines 140-151)
CommentPairs(key, value, custom_result) ==
    IF Truthy(custom_result)
    THEN IF custom_result.kind = "tuple"
         THEN PyList(<<PyTuple(<<PyStr(TextOf(custom_result.val[1])), custom_result.val[2]>>)>>)
         ELSE PyList([k \in 1..Len(custom_result.val) |->
                        PyTuple(<<PyStr(TextOf(custom_result.val[k].val[1])),
                                  custom_result.val[k].val[2]>>)])
    ELSE IF Len(key) = 0 \/ ~Truthy(value) THEN PyList(<<>>)
    ELSE PyList(<<PyTuple(<<PyStr(key), value>>)>>)

\* parse_comment_line once the line is split into key and value (lines 125-151)
CommentOfPair(kv, metadata_parsers) ==
    CommentPairs(kv[1], kv[2],
                 CustomResult(kv[1], kv[2], MergedMetadataParsers(metadata_parsers)))

\* parse_comment_line once the line is trimmed (lines 122-151)
CommentOfLine(line, metadata_parsers) ==
    IF Len(line) = 0 THEN Raise("IndexError")
    ELSE IF line[1] # "#" THEN Raise("ParseException")
    ELSE CommentOfPair(parse_pair_value(Tail(line)), metadata_parsers)

\* parse_comment_line: a list of (key, value) pairs
parse_comment_line(line, metadata_parsers) == CommentOfLine(Strip(line), metadata_parsers)

-----------------------------------------------------------------------------
(* Line / field parser *)

\* where the next separator of re.split(r"\t| {2,}", s) starts
IsSepStart(s, i) == s[i] = "\t" \/ (s[i] = " " /\ i < Len(s) /\ s[i + 1] = " ")

\* where the separator starting at i ends: one tab, or the whole run of spaces
SepEnd(s, i) ==
    IF s[i] = "\t" THEN i
    ELSE CHOOSE j \in i..Len(s) :
            /\ \A k \in i..j : s[k] = " "
            /\ (j = Len(s) \/ s[j + 1] # " ")

\* re.split(r"\t| {2,}", s)
RECURSIVE ReSplitFields(_)
ReSplitFields(s) ==
    IF \E i \in 1..Len(s) : IsSepStart(s, i)
    THEN LET i == CHOOSE i \in 1..Len(s) :
                    IsSepStart(s, i) /\ \A j \in 1..(i - 1) : ~IsSepStart(s, j)
         IN <<SubSeq(s, 1, i - 1)>> \o ReSplitFields(SubSeq(s, SepEnd(s, i) + 1, Len(s)))
    ELSE <<s>>

\* data[field] = value, unless an earlier field or this one raised
SetField(before, field, value) ==
    IF IsRaise(before) THEN before
    ELSE IF IsRaise(value) THEN Raise("ParseException")
    ELSE PyDict(DictSet(before.val, field, value))

\* the loop of parse_line over the schema: data after the first n fields
RECURSIVE ParseFields(_, _, _, _)
ParseFields(cols, fields, field_parsers, n) ==
    IF n = 0 THEN PyDict(<<>>)
    ELSE SetField(ParseFields(cols, fields, field_parsers, n - 1),
                  fields[n],
                  IF fields[n] \in DOMAIN field_parsers
                  THEN ApplyFieldParser(field_parsers[fields[n]], cols[n])
                  ELSE PyStr(cols[n]))

Min(a, b) == IF a < b THEN a ELSE b

\* parse_line once the line is split into its columns
RecordOfColumns(cols, fields, field_parsers) ==
    IF Len(cols) = 1 THEN Raise("ParseException")
    ELSE ParseFields(cols, fields, field_parsers, Min(Len(fields), Len(cols)))

\* parse_line: one token record, an OrderedDict field -> value
parse_line(line, fields, field_parsers) ==
    RecordOfColumns(ReSplitFields(line), fields,
                    IF DOMAIN field_parsers = {} THEN DEFAULT_FIELD_PARSERS ELSE field_parsers)

-----------------------------------------------------------------------------
(* Sentence assembler *)

SeqToSet(q) == {q[i] : i \in 1..Len(q)}

NoDuplicates(q) == \A i, j \in 1..Len(q) : q[i] = q[j] => i = j

\* the field parsers in force (lines 65-70): the defaults when none are given, the
\* defaults updated with the caller's when their keys are not exactly the schema
EffectiveFieldParsers(fields, field_parsers) ==
    IF DOMAIN field_parsers = {} THEN DEFAULT_FIELD_PARSERS
    ELSE IF ~(DOMAIN field_parsers = SeqToSet(fields) /\ NoDuplicates(fields))
         THEN field_parsers @@ DEFAULT_FIELD_PARSERS
    ELSE field_parsers

\* metadata[key] = value for every pair of one comment line
RECURSIVE DictUpdate(_, _)
DictUpdate(d, pairs) ==
    IF Len(pairs) = 0 THEN d
    ELSE DictUpdate(DictSet(d, pairs[1].val[1].val, pairs[1].val[2]), Tail(pairs))

\* the pairs of a comment line go into metadata, unless parsing the line raised
AddMetadata(before, pairs) ==
    IF IsRaise(pairs) THEN pairs ELSE [before EXCEPT !.metadata = DictUpdate(@, pairs.val)]

\* tokens.append(token), unless parsing the line raised
AddToken(before, token) ==
    IF IsRaise(token) THEN token ELSE [before EXCEPT !.tokens = Append(@, token)]

\* one turn of the loop of parse_token_and_metadata, on a trimmed line
AssembleLine(before, line, fields, field_parsers, metadata_parsers) ==
    IF IsRaise(before) THEN before
    ELSE IF Len(line) = 0 THEN before
    ELSE IF StartsWith(line, "#")
         THEN AddMetadata(before, parse_comment_line(line, metadata_parsers))
    ELSE AddToken(before, parse_line(line, fields, field_parsers))

\* the loop of parse_token_and_metadata over the first n lines of the block
RECURSIVE AssembleLines(_, _, _, _, _)
AssembleLines(lines, n, fields, field_parsers, metadata_parsers) ==
    IF n = 0 THEN [kind |-> "acc", tokens |-> <<>>, metadata |-> <<>>]
    ELSE AssembleLine(AssembleLines(lines, n - 1, fields, field_parsers, metadata_parsers),
                      Strip(lines[n]), fields, field_parsers, metadata_parsers)

\* parse_token_and_metadata with its guard on empty data left out
NoGuard(data) == FALSE

\* the guard of parse_token_and_metadata: "if not data"
NoDataSent(data) == Len(data) = 0

\* return tokens, metadata, unless a line raised
SentenceOrRaise(acc) ==
    IF IsRaise(acc) THEN acc ELSE PyTuple(<<PyList(acc.tokens), PyDict(acc.metadata)>>)

\* parse_token_and_metadata once the schema is settled (lines 65-88)
AssembleBlock(lines, fields, field_parsers, metadata_parsers) ==
    SentenceOrRaise(AssembleLines(lines, Len(lines), fields,
                                  EffectiveFieldParsers(fields, field_parsers),
                                  metadata_parsers))

\* parse_token_and_metadata: the pair (tokens, metadata)
parse_token_and_metadata(data, fields, field_parsers, metadata_parsers) ==
    IF NoDataSent(data) THEN Raise("ParseException")
    ELSE AssembleBlock(Split(data, "\n"),
                       IF Len(fields) = 0 THEN DEFAULT_FIELDS ELSE fields,
                       field_parsers, metadata_parsers)

-----------------------------------------------------------------------------
(* Serializer of a sentence *)

\* the first exception among a sequence of results, or PyNone
FirstRaise(results) ==
    IF \E k \in 1..Len(results) : IsRaise(results[k])
    THEN results[CHOOSE k \in 1..Len(results) :
                    IsRaise(results[k]) /\ \A j \in 1..(k - 1) : ~IsRaise(results[j])]
    ELSE PyNone

\* "# " + key + " = " + value
MetadataLine(pair) ==
    IF pair[2].kind # "str" THEN Raise("TypeError")
    ELSE PyStr(<<"#", " ">> \o pair[1] \o <<" ", "=", " ">> \o pair[2].val)

\* sep.join(parts) \o tail, unless producing one of the parts raised
JoinOrRaise(parts, sep, tail) ==
    IF IsRaise(FirstRaise(parts)) THEN FirstRaise(parts)
    ELSE PyStr(Join([k \in 1..Len(parts) |-> parts[k].val], sep) \o tail)

\* '\t'.join(serialize_field(val) for val in token_data.values())
TokenLine(token) ==
    JoinOrRaise([k \in 1..Len(token.val) |-> serialize_field(token.val[k][2])], <<"\t">>, <<>>)

\* serialize once the sentence is taken apart: the metadata lines, then the token
\* lines, joined by "\n" and followed by "\n\n"
SerializeLines(tokens, metadata) ==
    JoinOrRaise([k \in 1..Len(metadata) |-> MetadataLine(metadata[k])]
                    \o [k \in 1..Len(tokens) |-> TokenLine(tokens[k])],
                <<"\n">>, <<"\n", "\n">>)

\* serialize: the text of a sentence given as the pair (tokens, metadata)
serialize(tokenlist) == SerializeLines(tokenlist.val[1].val, tokenlist.val[2].val)

-----------------------------------------------------------------------------
(* Dependency index *)

DictHas(d, key) == \E i \in 1..Len(d.val) : d.val[i][1] = key

DictGet(d, key) == d.val[CHOOSE i \in 1..Len(d.val) : d.val[i][1] = key][2]

\* whether head_to_token leaves a token out because of its id (lines 234-235)
SkippedById(token) == DictHas(token, F_id) /\ DictGet(token, F_id).kind # "int"

\* head_indexed[head].append(token) on a defaultdict(list)
IndexAppend(head_indexed, head, token) ==
    IF head \in DOMAIN head_indexed
    THEN [head_indexed EXCEPT ![head] = Append(@, token)]
    ELSE (head :> <<token>>) @@ head_indexed

\* one turn of the loop of head_to_token
IndexToken(before, token) ==
    IF IsRaise(before) THEN before
    ELSE IF SkippedById(token) THEN before
    ELSE IF ~DictHas(token, F_head) THEN Raise("KeyError")
    ELSE IF DictGet(token, F_head).kind # "int" THEN Raise("TypeError")
    ELSE IF DictGet(token, F_head).val < 0 THEN before
    ELSE [before EXCEPT !.val = IndexAppend(@, DictGet(token, F_head).val, token)]

\* the loop of head_to_token over the first n tokens
RECURSIVE HeadIndexed(_, _)
HeadIndexed(sentence, n) ==
    IF n = 0 THEN [kind |-> "defaultdict", val |-> <<>>]
    ELSE IndexToken(HeadIndexed(sentence, n - 1), sentence[n])

\* len(head_indexed[0])
RootCount(head_indexed) == IF 0 \in DOMAIN head_indexed THEN Len(head_indexed[0]) ELSE 0

\* the checks head_to_token makes on the finished index (lines 244-250)
CheckRoots(head_indexed) ==
    IF IsRaise(head_indexed) THEN head_indexed
    ELSE IF RootCount(head_indexed.val) = 0 THEN Raise("ParseException")
    ELSE IF RootCount(head_indexed.val) > 1 THEN Raise("ParseException")
    ELSE head_indexed

\* head_to_token: head id -> the tokens that depend on it
head_to_token(sentence) ==
    IF Len(sentence) = 0 THEN Raise("ParseException")
    ELSE IF ~DictHas(sentence[1], F_head) THEN Raise("ParseException")
    ELSE CheckRoots(HeadIndexed(sentence, Len(sentence)))

-----------------------------------------------------------------------------
(* Sentence block splitter *)

\* the next line the file iterator hands out at cursor p (p < Len(s))
ReadLine(s, p) ==
    LET rest == SubSeq(s, p + 1, Len(s))
    IN IF Contains(rest, "\n") THEN SubSeq(rest, 1, FirstIndex(rest, "\n")) ELSE rest

\* "".join(buf)
RECURSIVE Concat(_)
Concat(parts) == IF Len(parts) = 0 THEN <<>> ELSE parts[1] \o Concat(Tail(parts))

\* a line counted as blank when nothing is left of it after strip()
BlankAfterStrip(line) == Strip(line) = <<>>

\* line == "\n"
IsBlankLine(line) == line = <<"\n">>

\* the text parse_sentences yields for a buffer: "".join(buf).rstrip()
BlockOfBuffer(b) == RStrip(Concat(b))

\* parse_sentences run from cursor p with buffer b up to its next yield:
\* the block yielded ("yield") or the end of the generator ("stop"), and the cursor
RECURSIVE GenNext(_, _, _)
GenNext(s, p, b) ==
    IF p >= Len(s)
    THEN IF Len(b) > 0
         THEN [kind |-> "yield", block |-> BlockOfBuffer(b), pos |-> p, last |-> TRUE]
         ELSE [kind |-> "stop", pos |-> p]
    ELSE LET line == ReadLine(s, p)
         IN IF IsBlankLine(line)
            THEN IF Len(b) = 0 THEN GenNext(s, p + Len(line), b)
                 ELSE [kind |-> "yield", block |-> BlockOfBuffer(b),
                       pos |-> p + Len(line), last |-> FALSE]
            ELSE GenNext(s, p + Len(line), Append(b, line))

\* list(parse_sentences(in_file)) from cursor p
RECURSIVE AllBlocks(_, _)
AllBlocks(s, p) ==
    LET g == GenNext(s, p, <<>>)
    IN IF g.kind = "stop" THEN <<>>
       ELSE IF g.last THEN <<g.block>>
       ELSE <<g.block>> \o AllBlocks(s, g.pos)

-----------------------------------------------------------------------------
(* Header / schema detector *)

\* where the cursor is once the peek is over, as if the file were not rewound
NoSeek(saved, current) == current

\* in_file.seek(pos) after the peek (line 33)
SeekBack(saved, current) == saved

\* the custom schema read off the metadata of the first line (lines 40-44)
FieldsOfMetadata(metadata) ==
    IF DictHas(metadata, K_global_columns) /\ Truthy(DictGet(metadata, K_global_columns))
    THEN LET names == Split(DictGet(metadata, K_global_columns).val, " ")
         IN PyList([k \in 1..Len(names) |-> PyStr(Lower(names[k]))])
    ELSE PyNone

\* the first line of the first block, "" when the generator stopped (lines 26-30)
FirstLineOf(g) == IF g.kind = "yield" THEN Split(g.block, "\n")[1] ELSE <<>>

\* the schema in the metadata of the parsed first line, unless parsing it raised
SchemaOrRaise(parsed) == IF IsRaise(parsed) THEN parsed ELSE FieldsOfMetadata(parsed.val[2])

\* what parse_conllu_plus_fields returns for the first line (lines 35-44)
SchemaOfFirstLine(first_line, metadata_parsers) ==
    IF ~StartsWith(first_line, "#") THEN PyNone
    ELSE SchemaOrRaise(parse_token_and_metadata(first_line, <<>>, <<>>, metadata_parsers))

\* parse_conllu_plus_fields once the first block is read: g is where next() left
\* the generator
PeekResult(p, g, metadata_parsers) ==
    [ret |-> SchemaOfFirstLine(FirstLineOf(g), metadata_parsers), pos |-> SeekBack(p, g.pos)]

\* parse_conllu_plus_fields: what it returns and where it leaves the cursor
parse_conllu_plus_fields(s, p, metadata_parsers) ==
    PeekResult(p, GenNext(s, p, <<>>), metadata_parsers)

-----------------------------------------------------------------------------
(* Bounded inputs of the value parsers *)

MaxIdLen == 5
MaxDepsLen == 5
MaxDictLen == 5
MaxIntLen == 3

\* all strings over an alphabet of at most n characters
StringsUpTo(alphabet, n) == UNION {[1..k -> alphabet] : k \in 0..n}

IdAlphabet == {"0", "1", "2", "-", ".", "_"}
DepsAlphabet == {"1", "2", "-", ":", "a", "|", "_"}
DictAlphabet == {"a", "b", "=", "|", "_"}
IntAlphabet == {"0", "1", "-", "_"}

IdInputs == StringsUpTo(IdAlphabet, MaxIdLen)

\* every short string, and every list of two well-formed groups
DepsGroups == {g \in StringsUpTo(DepsAlphabet, 3) : MatchDeps(g)}
DepsInputs ==
    StringsUpTo(DepsAlphabet, MaxDepsLen) \cup {a \o <<"|">> \o b : a \in DepsGroups, b \in DepsGroups}

DictInputs == StringsUpTo(DictAlphabet, MaxDictLen)
IntInputs == StringsUpTo(IntAlphabet, MaxIntLen)

ValueParsers ==
    {"parse_id_value", "parse_paired_list_value", "parse_dict_value", "parse_int_value",
     "parse_nullable_value"}

ValueInputs(parser) ==
    CASE parser = "parse_id_value" -> IdInputs
      [] parser = "parse_paired_list_value" -> DepsInputs
      [] parser = "parse_dict_value" -> DictInputs
      [] parser = "parse_int_value" -> IntInputs
      [] parser = "parse_nullable_value" -> IntInputs

MaxPairs == 3

\* well-formed (relation, id) pairs, and tuples of one or three items
PairPool ==
    {PyTuple(<<PyStr(<<"a">>), PyInt(1)>>),
     PyTuple(<<PyStr(<<"b">>), PyTuple(<<PyInt(1), PyStr(<<"-">>), PyInt(2)>>)>>),
     PyTuple(<<PyStr(<<"c">>), PyNone>>),
     PyTuple(<<PyStr(<<"a">>)>>),
     PyTuple(<<PyStr(<<"a">>), PyInt(1), PyInt(2)>>)}

ListInputs == {PyList(q) : q \in UNION {[1..n -> PairPool] : n \in 0..MaxPairs}}

NoFile == /\ stream = <<>> /\ pos = 0 /\ pos0 = 0 /\ buf = <<>> /\ yielded = <<>>

-----------------------------------------------------------------------------
(* The value parsers and serialize_field applied to one field *)

InitValues ==
    /\ pc = "call"
    /\ \/ op \in ValueParsers /\ arg \in ValueInputs(op)
       \/ op = "serialize_field" /\ arg \in ListInputs
    /\ ret = PyNone
    /\ out = PyNone
    /\ back = PyNone
    /\ NoFile

CallParseIdValue ==
    /\ pc = "call" /\ op = "parse_id_value"
    /\ ret' = parse_id_value(arg)
    /\ pc' = "parsed"
    /\ UNCHANGED <<op, arg, out, back, stream, pos, pos0, buf, yielded>>

CallParsePairedListValue ==
    /\ pc = "call" /\ op = "parse_paired_list_value"
    /\ ret' = parse_paired_list_value(arg)
    /\ pc' = "parsed"
    /\ UNCHANGED <<op, arg, out, back, stream, pos, pos0, buf, yielded>>

CallParseDictValue ==
    /\ pc = "call" /\ op = "parse_dict_value"
    /\ ret' = parse_dict_value(arg)
    /\ pc' = "parsed"
    /\ UNCHANGED <<op, arg, out, back, stream, pos, pos0, buf, yielded>>

CallParseIntValue ==
    /\ pc = "call" /\ op = "parse_int_value"
    /\ ret' = parse_int_value(arg)
    /\ pc' = "parsed"
    /\ UNCHANGED <<op, arg, out, back, stream, pos, pos0, buf, yielded>>

CallParseNullableValue ==
    /\ pc = "call" /\ op = "parse_nullable_value"
    /\ ret' = parse_nullable_value(arg)
    /\ pc' = "parsed"
    /\ UNCHANGED <<op, arg, out, back, stream, pos, pos0, buf, yielded>>

\* the parsed value is written back with serialize_field
CallSerializeField ==
    /\ pc = "parsed" /\ op \in ValueParsers
    /\ ~IsRaise(ret)
    /\ out' = serialize_field(ret)
    /\ pc' = "serialized"
    /\ UNCHANGED <<op, arg, ret, back, stream, pos, pos0, buf, yielded>>

\* serialize_field called on a list the caller built
CallSerializeList ==
    /\ pc = "call" /\ op = "serialize_field"
    /\ out' = serialize_field(arg)
    /\ pc' = "serialized"
    /\ UNCHANGED <<op, arg, ret, back, stream, pos, pos0, buf, yielded>>

NextValues ==
    \/ CallSerializeList
    \/ CallParseIdValue
    \/ CallParsePairedListValue
    \/ CallParseDictValue
    \/ CallParseIntValue
    \/ CallParseNullableValue
    \/ CallSerializeField

SpecValues == InitValues /\ [][NextValues]_vars

-----------------------------------------------------------------------------
(* Properties of the value parsers, checked under SpecValues *)

\* a triple (int, sep, int)
IsIdTriple(v, sep) ==
    /\ v.kind = "tuple"
    /\ Len(v.val) = 3
    /\ v.val[1].kind = "int"
    /\ v.val[2] = PyStr(<<sep>>)
    /\ v.val[3].kind = "int"

\* a string A-B of two positive integers with B <= A
IsBackwardRange(s) ==
    LET parts == Split(s, "-")
    IN /\ Len(parts) = 2
       /\ MatchPositive(parts[1])
       /\ MatchPositive(parts[2])
       /\ NatOfDigits(parts[2]) <= NatOfDigits(parts[1])

\* C4: every string that matches the single, range (end > start) or decimal identifier
\* grammar is reproduced exactly by serialize_field(parse_id_value(s)).
C4_IdRoundTrip ==
    (op = "parse_id_value" /\ pc = "serialized" /\ MatchAnyId(arg)) => out = PyStr(arg)

\* C5: parse_id_value returns None, an int, a triple (int, "-", int) with end > start
\* or a triple (int, ".", int), or raises ParseException; never a raw string; a range
\* A-B with B <= A raises ParseException.
C5_IdValueNeverRaw ==
    (op = "parse_id_value" /\ pc # "call") =>
        /\ \/ ret = PyNone
           \/ ret.kind = "int"
           \/ IsIdTriple(ret, "-") /\ ret.val[3].val > ret.val[1].val
           \/ IsIdTriple(ret, ".")
           \/ ret = Raise("ParseException")
        /\ IsBackwardRange(arg) => ret = Raise("ParseException")

\* C5's case: the backward range 2-1 was parsed and refused
C5_Witness ==
    /\ op = "parse_id_value" /\ pc = "parsed"
    /\ arg = <<"2", "-", "1">>
    /\ ret = Raise("ParseException")

\* C6: parse_paired_list_value never raises: it returns a list of pairs, None or the
\* raw string for every input string.
C6_DepsNeverRaise ==
    (op = "parse_paired_list_value" /\ pc = "parsed") => ret.kind \in {"list", "None", "str"}

\* the key of a part: what precedes its first "="
FirstEqKey(part) ==
    IF Contains(part, "=") THEN SubSeq(part, 1, FirstIndex(part, "=") - 1) ELSE part

\* the value of a part: everything after its first "=" (an absent marker read as
\* absent), the empty string when the part has no "="
FirstEqValue(part) ==
    IF Contains(part, "=")
    THEN parse_nullable_value(SubSeq(part, FirstIndex(part, "=") + 1, Len(part)))
    ELSE PyStr(<<>>)

\* the ordered mapping the parts of a value give when each is split on its first "="
FirstEqDict(value) ==
    LET parts == Split(value, "|")
        kept == SelectSeq(parts, LAMBDA p : Len(FirstEqKey(p)) > 0 /\ FirstEqKey(p) # <<"_">>)
    IN PyDict(DictFromPairs([k \in 1..Len(kept) |-> <<FirstEqKey(kept[k]), FirstEqValue(kept[k])>>]))

\* C10: on a non-absent value parse_dict_value returns the ordered mapping of the
\* parts split on "|", each split on its first "=": the value is everything after
\* the first "=", empty when there is none, parts with an absent key are dropped,
\* order is kept and a duplicate key keeps the last value.
C10_DictFirstEq ==
    (op = "parse_dict_value" /\ pc = "parsed" /\ Len(arg) > 0 /\ arg # <<"_">>) =>
        ret = FirstEqDict(arg)

\* a list item that is a pair
IsPair(item) == Len(item.val) = 2

\* C13: serialize_field renders a list of (relation, id) pairs as the id:relation
\* pairs joined by "|", and raises ParseException when any item of the list, at
\* whatever position, is not of length 2.
C13_MalformedPairFails ==
    (op = "serialize_field" /\ pc = "serialized") =>
        /\ (\E k \in 1..Len(arg.val) : ~IsPair(arg.val[k])) => out = Raise("ParseException")
        /\ (Len(arg.val) > 0 /\ \A k \in 1..Len(arg.val) : IsPair(arg.val[k])) =>
               out = PyStr(Join([k \in 1..Len(arg.val) |->
                                   serialize_field(arg.val[k].val[2]).val \o <<":">>
                                       \o arg.val[k].val[1].val],
                                <<"|">>))

-----------------------------------------------------------------------------
(* Bounded inputs of the sentence assembler *)

MaxCols == 4
MaxTreeTokens == 3

\* x1 \o sep \o x2 ... for every sequence of k..n elements of a pool
JoinedSeqs(pool, sep, k, n) == {Join(q, sep) : q \in UNION {[1..m -> pool] : m \in k..n}}

FieldPool == {<<"1">>, <<"_">>, <<"A">>, <<"A", "=", "b">>, <<"1", ":", "a">>}
TokenLines == JoinedSeqs(FieldPool, <<"\t">>, 2, MaxCols)

CommentPool ==
    {<<"#", " ", "x", " ", "=", " ", "y">>,
     <<"#", " ", "x">>,
     <<"#", " ">> \o K_newdoc,
     <<"#", " ">> \o K_newdoc \o <<" ", "=", " ", "d">>}

Schemas == {<<>>, <<F_id, F_feats, F_head, F_deps>>, <<F_form, F_misc>>}

NoParsers == <<>>

ParseArgs(data, fields, field_parsers, metadata_parsers) ==
    [data |-> data, fields |-> fields, field_parsers |-> field_parsers,
     metadata_parsers |-> metadata_parsers]

\* one token line, alone or under one comment line, or one comment line alone
BlockFamily ==
    {ParseArgs(d, f, NoParsers, NoParsers) :
        d \in TokenLines \cup {c \o <<"\n">> \o l : c \in CommentPool, l \in TokenLines}
              \cup CommentPool,
        f \in Schemas}

\* blocks without content, and lines whose columns are separated by runs of spaces
SpecialFamily ==
    {ParseArgs(d, <<>>, NoParsers, NoParsers) :
        d \in {<<>>, <<" ">>, <<"\n">>, <<" ", "\n", "\t">>,
               <<"1", " ", " ", "A">>, <<"1", " ", " ", " ", "A", "\t", "_">>,
               <<"1", " ", "A">>, <<"1", "\t", "A", " ", "b", "\n", "\n">>}}

\* the caller's own field parsers: merged into the defaults, or used as they are
ParserFamily ==
    {ParseArgs(d, <<>>, (F_form :> "parse_nullable_value"), NoParsers) : d \in TokenLines}
    \cup {ParseArgs(d, <<F_id, F_form>>,
                    (F_id :> "parse_int_value") @@ (F_form :> "parse_nullable_value"),
                    NoParsers) : d \in TokenLines}

\* the caller's own comment handlers
MetadataParserPool ==
    {(<<"x">> :> "two_in_list"), (<<"x">> :> "empty_list"), (<<"x">> :> "none"),
     (K_fallback :> "identity"), (K_fallback :> "one_in_list")}

MetadataFamily ==
    {ParseArgs(c, <<>>, NoParsers, m) : c \in CommentPool, m \in MetadataParserPool}

\* sentences of several tokens: id, form and (on some lines) head, or form and head
TreeIds == {<<"1">>, <<"1", "-", "2">>}
TreeHeads == {<<"_">>, <<"-", "1">>, <<"0">>, <<"1">>}
TreeLines ==
    {i \o <<"\t", "x">> : i \in TreeIds}
    \cup {i \o <<"\t", "x", "\t">> \o h : i \in TreeIds, h \in TreeHeads}
TreeFamily ==
    {ParseArgs(d, <<F_id, F_form, F_head>>, NoParsers, NoParsers) :
        d \in JoinedSeqs(TreeLines, <<"\n">>, 1, MaxTreeTokens)}
    \cup {ParseArgs(d, <<F_form, F_head>>, NoParsers, NoParsers) :
            d \in JoinedSeqs({<<"x", "\t", "0">>, <<"x", "\t", "1">>}, <<"\n">>, 1, 2)}

SentenceInputs == BlockFamily \cup SpecialFamily \cup ParserFamily \cup MetadataFamily \cup TreeFamily

-----------------------------------------------------------------------------
(* A block parsed, then serialized and parsed again, or indexed by head *)

InitSentence ==
    /\ pc = "call"
    /\ op = "parse_token_and_metadata"
    /\ arg \in SentenceInputs
    /\ ret = PyNone
    /\ out = PyNone
    /\ back = PyNone
    /\ NoFile

CallParseBlock ==
    /\ pc = "call" /\ op = "parse_token_and_metadata"
    /\ ret' = parse_token_and_metadata(arg.data, arg.fields, arg.field_parsers,
                                       arg.metadata_parsers)
    /\ pc' = "parsed"
    /\ UNCHANGED <<op, arg, out, back, stream, pos, pos0, buf, yielded>>

CallSerialize ==
    /\ pc = "parsed" /\ op = "parse_token_and_metadata"
    /\ ~IsRaise(ret)
    /\ out' = serialize(ret)
    /\ pc' = "serialized"
    /\ UNCHANGED <<op, arg, ret, back, stream, pos, pos0, buf, yielded>>

\* the serialized text parsed with the same schema and parsers
CallParseAgain ==
    /\ pc = "serialized" /\ op = "parse_token_and_metadata"
    /\ ~IsRaise(out)
    /\ back' = parse_token_and_metadata(out.val, arg.fields, arg.field_parsers,
                                        arg.metadata_parsers)
    /\ pc' = "reparsed"
    /\ UNCHANGED <<op, arg, ret, out, stream, pos, pos0, buf, yielded>>

CallHeadToToken ==
    /\ pc = "parsed" /\ op = "parse_token_and_metadata"
    /\ ~IsRaise(ret)
    /\ out' = head_to_token(ret.val[1].val)
    /\ pc' = "indexed"
    /\ UNCHANGED <<op, arg, ret, back, stream, pos, pos0, buf, yielded>>

NextSentence ==
    \/ CallParseBlock
    \/ CallSerialize
    \/ CallParseAgain
    \/ CallHeadToToken

SpecSentence == InitSentence /\ [][NextSentence]_vars

-----------------------------------------------------------------------------
(* Properties of the assembler, the serializer and the index, under SpecSentence *)

\* C3: a pair that parse_token_and_metadata produced is serialized, and the text parsed
\* again with the same schema and parsers gives a pair equal to the original.
C3_ParseSerializeRoundTrip ==
    op = "parse_token_and_metadata" =>
        /\ pc = "serialized" => ~IsRaise(out)
        /\ pc = "reparsed" => back = ret

\* the number of tokens of a sentence whose head is 0
HeadZeroCount(sentence) ==
    Cardinality({k \in 1..Len(sentence) :
                    DictHas(sentence[k], F_head) /\ DictGet(sentence[k], F_head) = PyInt(0)})

\* C7: head_to_token raises ParseException whenever the token list holds no token or
\* more than one token with head == 0, or no record has a head field; it returns the
\* mapping only when exactly one token has head == 0.
C7_SingleRootOrFormatError ==
    (op = "parse_token_and_metadata" /\ pc = "indexed") =>
        LET sentence == ret.val[1].val
            lacks == \A k \in 1..Len(sentence) : ~DictHas(sentence[k], F_head)
        IN /\ (HeadZeroCount(sentence) # 1 \/ lacks) => out = Raise("ParseException")
           /\ out.kind = "defaultdict" => HeadZeroCount(sentence) = 1

\* a block with no comment line and no token line
IsBlankBlock(data) == \A i \in 1..Len(data) : data[i] \in Whitespace

EmptySentence == PyTuple(<<PyList(<<>>), PyDict(<<>>)>>)

\* C9: parse_token_and_metadata raises ParseException whenever its block contains no
\* comment line and no token line; it never returns an empty pair for such a block.
C9_BlankBlockFails ==
    (op = "parse_token_and_metadata" /\ pc = "parsed" /\ IsBlankBlock(arg.data)) =>
        ret = Raise("ParseException")

\* C9 as amended: parse_token_and_metadata raises ParseException when the block text
\* is the empty string; a non-empty block of whitespace only raises nothing and gives
\* the empty (tokens, metadata) pair.
C9_EmptyTextFails ==
    (op = "parse_token_and_metadata" /\ pc = "parsed") =>
        /\ arg.data = <<>> => ret = Raise("ParseException")
        /\ (arg.data # <<>> /\ IsBlankBlock(arg.data)) => ret = EmptySentence

\* C9's case: the empty text was handed in and refused
C9_Witness ==
    /\ op = "parse_token_and_metadata" /\ pc = "parsed"
    /\ arg.data = <<>>
    /\ ret = Raise("ParseException")

-----------------------------------------------------------------------------
(* Bounded inputs of the comment parser *)

MaxCommentLen == 4

CommentAlphabet == {"x", "y", "=", " "}

\* "#" followed by every short text, and the comments the default handlers take
CommentLines ==
    {<<"#">> \o t : t \in StringsUpTo(CommentAlphabet, MaxCommentLen)}
    \cup CommentPool
    \cup {<<"#", " ">> \o K_newpar, <<" ", "#">> \o K_newpar \o <<" ", "\n">>,
          <<"#", " ">> \o K_newdoc \o <<" ", "=">>}

\* no handler of the caller's, or one for the key x, for newdoc or for every key
CommentParserPool ==
    MetadataParserPool
    \cup {NoParsers, (<<"x">> :> "identity"), (<<"x">> :> "one_in_list"),
          (K_fallback :> "empty_list"), (K_fallback :> "two_in_list"),
          (K_newdoc :> "empty_list")}

CommentInputs == {ParseArgs(l, <<>>, NoParsers, m) : l \in CommentLines, m \in CommentParserPool}

-----------------------------------------------------------------------------
(* One comment line handed to parse_comment_line *)

InitComment ==
    /\ pc = "call"
    /\ op = "parse_comment_line"
    /\ arg \in CommentInputs
    /\ ret = PyNone
    /\ out = PyNone
    /\ back = PyNone
    /\ NoFile

CallParseCommentLine ==
    /\ pc = "call" /\ op = "parse_comment_line"
    /\ ret' = parse_comment_line(arg.data, arg.metadata_parsers)
    /\ pc' = "parsed"
    /\ UNCHANGED <<op, arg, out, back, stream, pos, pos0, buf, yielded>>

NextComment == CallParseCommentLine

SpecComment == InitComment /\ [][NextComment]_vars

-----------------------------------------------------------------------------
(* Properties of the comment parser, under SpecComment *)

\* the text of a comment line after its "#"
CommentBody(line) == Tail(Strip(line))

\* the key of a comment: what precedes the first "=", trimmed
CommentKey(line) == Strip(FirstEqKey(CommentBody(line)))

\* the value of a comment: what follows the first "=", trimmed; absent without "="
CommentValue(line) ==
    IF Contains(CommentBody(line), "=")
    THEN PyStr(Strip(SubSeq(CommentBody(line), FirstIndex(CommentBody(line), "=") + 1,
                            Len(CommentBody(line)))))
    ELSE PyNone

\* a handler is registered for the key, or a __fallback__ handler is registered
HandlerApplies(key, parsers) == key \in DOMAIN parsers \/ K_fallback \in DOMAIN parsers

\* C11: when the key of the comment has a registered handler, or a __fallback__
\* handler is registered, the line contributes exactly what the handler returned for
\* (key, value): the pair when it returned a pair, the list of pairs when it returned
\* a list, the empty list included.
C11_HandlerResultUsed ==
    (op = "parse_comment_line" /\ pc = "parsed") =>
        LET parsers == MergedMetadataParsers(arg.metadata_parsers)
            key == CommentKey(arg.data)
            result == CustomResult(key, CommentValue(arg.data), parsers)
        IN HandlerApplies(key, parsers) =>
              /\ result.kind = "tuple" => ret = PyList(<<result>>)
              /\ result.kind = "list" => ret = result

\* C12: a comment line to which no handler applies raises nothing; it contributes no
\* pair when its key or its value is empty or absent, and the one pair (key, value),
\* both trimmed, otherwise. A comment whose key is newdoc or newpar is passed through
\* by the default handlers, with or without a value.
C12_DefaultTreatment ==
    (op = "parse_comment_line" /\ pc = "parsed") =>
        LET key == CommentKey(arg.data)
            value == CommentValue(arg.data)
            pair == PyList(<<PyTuple(<<PyStr(key), value>>)>>)
        IN /\ ~HandlerApplies(key, MergedMetadataParsers(arg.metadata_parsers)) =>
                ret = IF key = <<>> \/ value = PyNone \/ value = PyStr(<<>>)
                      THEN PyList(<<>>)
                      ELSE pair
           /\ (key \in {K_newdoc, K_newpar} /\ key \notin DOMAIN arg.metadata_parsers) =>
                ret = pair

\* C12's cases: "# x" gave nothing, "#x =y" gave the trimmed pair and "# newpar" was
\* passed through without a value
C12_Witness ==
    /\ op = "parse_comment_line" /\ pc = "parsed"
    /\ arg.metadata_parsers = NoParsers
    /\ \/ arg.data = <<"#", " ", "x">> /\ ret = PyList(<<>>)
       \/ /\ arg.data = <<"#", "x", " ", "=", "y">>
          /\ ret = PyList(<<PyTuple(<<PyStr(<<"x">>), PyStr(<<"y">>)>>)>>)
       \/ /\ arg.data = <<"#", " ">> \o K_newpar
          /\ ret = PyList(<<PyTuple(<<PyStr(K_newpar), PyNone>>)>>)

-----------------------------------------------------------------------------
(* Bounded inputs of the block splitter and the schema detector *)

MaxLines == 4

\* a blank line, a line of whitespace, a token line with and without a trailing
\* space, a comment line
ShortLines == {<<"\n">>, <<" ", "\n">>, <<"a", "\n">>, <<"a", " ", "\n">>, <<"#", "b", "\n">>}

\* first lines that do or do not declare the columns
HeaderLines ==
    {<<"#", " ">> \o K_global_columns \o <<" ", "=", " ", "I", "D", " ", "F", "o", "\n">>,
     <<"#", " ">> \o K_global_columns \o <<" ", "=", " ", "I", "D", " ", " ", "F", "o", "\n">>,
     <<"#", " ">> \o K_global_columns \o <<" ", "=", "\n">>,
     <<"#", " ">> \o K_global_columns \o <<"\n">>,
     <<"#", " ", "x", " ", "=", " ", "I", "D", "\n">>}

TerminatedStreams ==
    JoinedSeqs(ShortLines, <<>>, 0, MaxLines)
    \cup {h \o t : h \in HeaderLines, t \in JoinedSeqs(ShortLines, <<>>, 0, 1)}

\* every stream, with or without the newline that ends its last line
StreamInputs ==
    TerminatedStreams
    \cup {SubSeq(s, 1, Len(s) - 1) : s \in {t \in TerminatedStreams : Len(t) > 0}}

-----------------------------------------------------------------------------
(* A file handed to the reader: the schema is peeked at, or not, then the file is
   split into blocks line by line *)

Init ==
    /\ stream \in StreamInputs
    /\ pos0 \in 0..Len(stream)
    /\ pos = pos0
    /\ buf = <<>>
    /\ yielded = <<>>
    /\ pc = "start"
    /\ op = "none"
    /\ arg = NoParsers
    /\ ret = PyNone
    /\ out = PyNone
    /\ back = PyNone

\* the caller gets the result r.ret and the file is left at r.pos
Returned(r) == ret' = r.ret /\ pos' = r.pos

\* parse_conllu_plus_fields(in_file)
DetectSchema ==
    /\ pc = "start"
    /\ Returned(parse_conllu_plus_fields(stream, pos, arg))
    /\ pc' = "peeked"
    /\ op' = "parse_conllu_plus_fields"
    /\ UNCHANGED <<arg, out, back, stream, pos0, buf, yielded>>

\* parse_sentences(in_file) is entered: buf = []
StartSentences ==
    /\ pc \in {"start", "peeked"}
    /\ buf' = <<>>
    /\ pc' = "loop"
    /\ UNCHANGED <<op, arg, ret, out, back, stream, pos, pos0, yielded>>

\* a blank line while nothing is buffered: continue
ReadBlankSkip ==
    /\ pc = "loop" /\ pos < Len(stream)
    /\ IsBlankLine(ReadLine(stream, pos))
    /\ buf = <<>>
    /\ pos' = pos + 1
    /\ UNCHANGED <<pc, op, arg, ret, out, back, stream, pos0, buf, yielded>>

\* a blank line after buffered lines: the block is yielded and the buffer emptied
ReadBlankYield ==
    /\ pc = "loop" /\ pos < Len(stream)
    /\ IsBlankLine(ReadLine(stream, pos))
    /\ buf # <<>>
    /\ yielded' = Append(yielded, BlockOfBuffer(buf))
    /\ buf' = <<>>
    /\ pos' = pos + 1
    /\ UNCHANGED <<pc, op, arg, ret, out, back, stream, pos0>>

\* any other line is buffered
ReadAppend ==
    /\ pc = "loop" /\ pos < Len(stream)
    /\ ~IsBlankLine(ReadLine(stream, pos))
    /\ buf' = Append(buf, ReadLine(stream, pos))
    /\ pos' = pos + Len(ReadLine(stream, pos))
    /\ UNCHANGED <<pc, op, arg, ret, out, back, stream, pos0, yielded>>

\* end of file with buffered lines: the last block is yielded
EndYield ==
    /\ pc = "loop" /\ pos = Len(stream)
    /\ buf # <<>>
    /\ yielded' = Append(yielded, BlockOfBuffer(buf))
    /\ pc' = "done"
    /\ UNCHANGED <<op, arg, ret, out, back, stream, pos, pos0, buf>>

\* end of file with nothing buffered
EndStop ==
    /\ pc = "loop" /\ pos = Len(stream)
    /\ buf = <<>>
    /\ pc' = "done"
    /\ UNCHANGED <<op, arg, ret, out, back, stream, pos, pos0, buf, yielded>>

Next ==
    \/ DetectSchema
    \/ StartSentences
    \/ ReadBlankSkip
    \/ ReadBlankYield
    \/ ReadAppend
    \/ EndYield
    \/ EndStop

Spec == Init /\ [][Next]_vars

-----------------------------------------------------------------------------
(* Properties of the block splitter and the schema detector, under Spec *)

\* C1: parse_conllu_plus_fields leaves the read position where it found it, on every
\* return path, so that parse_sentences run afterwards yields the blocks it would
\* have yielded without the call.
C1_PeekRestoresPosition ==
    /\ pc = "peeked" => pos = pos0
    /\ pc = "done" => yielded = AllBlocks(stream, pos0)

\* C1's case: the schema was peeked at from inside the file and two blocks followed
C1_Witness ==
    /\ pc = "done" /\ op = "parse_conllu_plus_fields"
    /\ pos0 > 0
    /\ Len(yielded) = 2

\* C2: parse_sentences never yields an empty block, whatever the lines; two sentences
\* separated by two consecutive blank lines yield exactly two blocks.
C2_NoEmptyBlock ==
    /\ \A k \in 1..Len(yielded) : yielded[k] # <<>>
    /\ (pc = "done" /\ pos0 = 0 /\ stream = <<"a", "\n", "\n", "\n", "a", "\n">>) =>
           yielded = <<<<"a">>, <<"a">>>>

\* s.split(): the maximal runs of characters that are not whitespace
RECURSIVE WsSplit(_)
WsSplit(s) ==
    LET t == LStrip(s)
    IN IF Len(t) = 0 THEN <<>>
       ELSE IF \E i \in 1..Len(t) : t[i] \in Whitespace
            THEN LET i == CHOOSE i \in 1..Len(t) :
                            t[i] \in Whitespace /\ \A j \in 1..(i - 1) : t[j] \notin Whitespace
                 IN <<SubSeq(t, 1, i - 1)>> \o WsSplit(SubSeq(t, i, Len(t)))
            ELSE <<t>>

\* the first line of the first block at or after the cursor p, "" when there is none
FirstLineFrom(s, p) == FirstLineOf(GenNext(s, p, <<>>))

\* C8: parse_conllu_plus_fields returns no schema when the first line of the first
\* block is not a comment; when it is a comment defining global.columns it returns
\* the value's whitespace-delimited names, lower-cased, none of them empty.
C8_SchemaFromFirstLine ==
    pc = "peeked" =>
        LET first_line == FirstLineFrom(stream, pos0)
            kv == parse_pair_value(Tail(Strip(first_line)))
        IN /\ ~StartsWith(first_line, "#") => ret = PyNone
           /\ (StartsWith(first_line, "#") /\ kv[1] = K_global_columns /\ Truthy(kv[2])) =>
                  ret = PyList([k \in 1..Len(WsSplit(kv[2].val)) |->
                                  PyStr(Lower(WsSplit(kv[2].val)[k]))])

\* the lines the file iterator hands out from cursor p on
RECURSIVE InputLines(_, _)
InputLines(s, p) ==
    IF p >= Len(s) THEN <<>>
    ELSE <<ReadLine(s, p)>> \o InputLines(s, p + Len(ReadLine(s, p)))

\* a line with a character that is not whitespace
HasContent(line) == \E i \in 1..Len(line) : line[i] \notin Whitespace

\* a line without the newline that ends it
Chomp(line) ==
    IF Len(line) > 0 /\ line[Len(line)] = "\n" THEN SubSeq(line, 1, Len(line) - 1) ELSE line

\* the lines cut into groups at every line that is "\n" alone
RECURSIVE LineGroups(_)
LineGroups(lines) ==
    IF Len(lines) = 0 THEN <<<<>>>>
    ELSE LET rest == LineGroups(Tail(lines))
         IN IF Head(lines) = <<"\n">> THEN <<<<>>>> \o rest
            ELSE <<<<Head(lines)>> \o Head(rest)>> \o Tail(rest)

\* the lines of a group that have content, without their newline; the last of them
\* without its trailing whitespace
ContentOfGroup(group) ==
    LET c == SelectSeq([k \in 1..Len(group) |-> Chomp(group[k])], HasContent)
    IN [k \in 1..Len(c) |-> IF k = Len(c) THEN RStrip(c[k]) ELSE c[k]]

\* the lines of a yielded block that have content
ContentOfBlock(block) == SelectSeq(Split(block, "\n"), HasContent)

\* a sequence without its empty members
NonEmpty(seqs) == SelectSeq(seqs, LAMBDA q : Len(q) > 0)

\* C14: when parse_sentences has run to the end of the stream, the lines with a
\* non-whitespace character found in the yielded blocks, block by block, are the
\* input lines with a non-whitespace character, group by group, where the groups are
\* what lies between the lines that are "\n" alone: every such line is in exactly one
\* block, in input order, two of them share a block iff no blank line lies between
\* them, and the last group is yielded whether or not a blank line follows it.
C14_LineConservation ==
    pc = "done" =>
        NonEmpty([k \in 1..Len(yielded) |-> ContentOfBlock(yielded[k])])
          = NonEmpty([k \in 1..Len(LineGroups(InputLines(stream, pos0))) |->
                        ContentOfGroup(LineGroups(InputLines(stream, pos0))[k])])

\* C14's case: the stream ends inside its last line; the line of whitespace and the
\* token line after it shared a block, the blank line closed it, and the
\* unterminated line was yielded as the last block
C14_Witness ==
    /\ pc = "done" /\ pos0 = 0
    /\ stream = <<" ", "\n", "a", " ", "\n", "\n", "a">>
    /\ yielded = <<<<" ", "\n", "a">>, <<"a">>>>

=============================================================================
